---- MODULE Spec2Model ----
(***************************************************************************)
(* A model of the job-applyer scripts: the numbered-response parser of     *)
(* main.py (generate_batch_ai_answers), the one-line parser of             *)
(* apply_cli.py, the batch loop of main(), the browser autofill of         *)
(* apply_to_job and the start-up check of the API key in the three         *)
(* scripts.                                                                *)
(*                                                                         *)
(* Text is a sequence of one-character strings.  The model's response is   *)
(* any text over Chars of at most MaxTextLen characters.                   *)
(***************************************************************************)
EXTENDS Integers, Sequences, FiniteSets, TLC

\* ------------------------------------------------------------------ bounds
MaxTextLen == 7

MaxJobs == 2

MaxQuestions == 2

MaxFields == 2

MaxSelects == 2

\* ------------------------------------------------------------- characters
Chars == {"1", "2", ".", "a", " ", "\n"}

Whitespace == {" ", "\n"}

Digits == {"0", "1", "2", "3", "4", "5", "6", "7", "8", "9"}

DigitValue(c) ==
  CASE c = "0" -> 0 [] c = "1" -> 1 [] c = "2" -> 2 [] c = "3" -> 3
    [] c = "4" -> 4 [] c = "5" -> 5 [] c = "6" -> 6 [] c = "7" -> 7
    [] c = "8" -> 8 [] c = "9" -> 9

DigitChar(d) ==
  CASE d = 0 -> "0" [] d = 1 -> "1" [] d = 2 -> "2" [] d = 3 -> "3"
    [] d = 4 -> "4" [] d = 5 -> "5" [] d = 6 -> "6" [] d = 7 -> "7"
    [] d = 8 -> "8" [] d = 9 -> "9"

\* the texts of n characters
TextsOfLen(n) == [1..n -> Chars]

\* --------------------------------------------------------- str operations
\* str.isdigit() of one character
IsDigit(c) == c \in Digits

RECURSIVE LStrip(_)
LStrip(s) ==
  IF s # <<>> /\ Head(s) \in Whitespace THEN LStrip(Tail(s)) ELSE s

RECURSIVE RStrip(_)
RStrip(s) ==
  IF s # <<>> /\ s[Len(s)] \in Whitespace
  THEN RStrip(SubSeq(s, 1, Len(s) - 1))
  ELSE s

\* str.strip()
Strip(s) == RStrip(LStrip(s))

\* "sep in s" for a one-character sep
Contains(s, sep) == \E k \in 1..Len(s) : s[k] = sep

\* the position of the first sep in s, Len(s) + 1 when there is none
RECURSIVE FirstIndex(_, _, _)
FirstIndex(s, sep, k) ==
  IF k > Len(s) \/ s[k] = sep THEN k ELSE FirstIndex(s, sep, k + 1)

\* s.split(sep): the pieces between the separators, at least one piece
RECURSIVE Split(_, _)
Split(s, sep) ==
  LET k == FirstIndex(s, sep, 1)
  IN  IF k > Len(s)
      THEN <<s>>
      ELSE <<SubSeq(s, 1, k - 1)>> \o Split(SubSeq(s, k + 1, Len(s)), sep)

\* s.split(sep, 1): at most one cut, at the first separator
SplitOnce(s, sep) ==
  LET k == FirstIndex(s, sep, 1)
  IN  IF k > Len(s)
      THEN <<s>>
      ELSE <<SubSeq(s, 1, k - 1), SubSeq(s, k + 1, Len(s))>>

\* sep.join(parts), sep a text
RECURSIVE Join(_, _)
Join(sep, parts) ==
  IF parts = <<>> THEN <<>>
  ELSE IF Len(parts) = 1 THEN parts[1]
  ELSE parts[1] \o sep \o Join(sep, Tail(parts))

\* s.splitlines(): the pieces between line ends, no piece for an empty text
\* or after a final line end
SplitLines(s) ==
  IF s = <<>> THEN <<>>
  ELSE IF s[Len(s)] = "\n" THEN Split(SubSeq(s, 1, Len(s) - 1), "\n")
  ELSE Split(s, "\n")

\* int(s) accepts surrounding whitespace and then decimal digits only
IntOk(s) ==
  LET t == Strip(s)
  IN  t # <<>> /\ \A k \in 1..Len(t) : IsDigit(t[k])

RECURSIVE DecimalValue(_)
DecimalValue(t) ==
  IF t = <<>> THEN 0
  ELSE 10 * DecimalValue(SubSeq(t, 1, Len(t) - 1)) + DigitValue(t[Len(t)])

\* int(s) where IntOk(s); ValueError otherwise
IntValue(s) == DecimalValue(Strip(s))

\* ------------------------------------------------------------------ dicts
\* a dict is a function on a finite set of integer keys
EmptyDict == [k \in {} |-> <<>>]

\* d[key] = value
DictSet(d, key, value) ==
  [k \in DOMAIN d \cup {key} |-> IF k = key THEN value ELSE d[k]]

\* d.get(key, default)
DictGet(d, key, default) == IF key \in DOMAIN d THEN d[key] ELSE default

\* Optional index: None is <<>>, an index i is <<i>>
None == <<>>

Some(i) == <<i>>

\* ------------------------------------------- main.py numbered-response parser
\* a variant of IsMarker: the "." must follow the first digit at once
IsMarker_DotAfterDigit(line) == IsDigit(line[1]) /\ Len(line) >= 2 /\ line[2] = "."

\* main.py:104  line[0].isdigit() and "." in line   (line is stripped, non-empty)
IsMarker(line) == IsDigit(line[1]) /\ Contains(line, ".")

\* main.py:107  line.split(".")[0]
MarkerNumberText(line) == Split(line, ".")[1]

\* main.py:107  int(...) - 1, where int() succeeds
NewIndex(line) == IntValue(MarkerNumberText(line)) - 1

\* a variant of MarkerAnswerText: only the piece up to the next "." is kept
MarkerAnswerText_FirstPieceOnly(line) == Strip(Split(line, ".")[2])

\* main.py:108  ".".join(line.split(".")[1:]).strip()
MarkerAnswerText(line) == Strip(Join(<<".">>, Tail(Split(line, "."))))

\* a variant of Flush: the pieces are joined without a space
Flush_NoSpace(buf) == Strip(Join(<<>>, buf))

\* main.py:106 / 113  " ".join(buffer).strip()
Flush(buf) == Strip(Join(<<" ">>, buf))

\* the state of the loop before the first line (main.py:97-99)
ParserStart ==
  [answers |-> EmptyDict, current_idx |-> None, buffer |-> <<>>, raised |-> FALSE]

\* one pass of the loop body (main.py:100-111) on one element of splitlines()
LoopBody(st, rawline) ==
  LET line == Strip(rawline)
  IN  IF line = <<>> THEN st
      ELSE IF IsMarker(line)
      THEN LET flushed == IF st.current_idx # None
                          THEN DictSet(st.answers, st.current_idx[1], Flush(st.buffer))
                          ELSE st.answers
           IN  IF IntOk(MarkerNumberText(line))
               THEN [answers |-> flushed,
                     current_idx |-> Some(NewIndex(line)),
                     buffer |-> <<MarkerAnswerText(line)>>,
                     raised |-> FALSE]
               ELSE [st EXCEPT !.answers = flushed, !.raised = TRUE]
      ELSE IF st.current_idx # None
           THEN [st EXCEPT !.buffer = Append(st.buffer, line)]
           ELSE st

\* a variant of FinalFlush: the last buffer is dropped
FinalFlush_Dropped(st) == st.answers

\* after the loop (main.py:112-114): the last buffer is flushed
FinalFlush(st) ==
  IF st.current_idx # None
  THEN DictSet(st.answers, st.current_idx[1], Flush(st.buffer))
  ELSE st.answers

\* the whole loop and the final flush on the lines of a response
RECURSIVE ParseFrom(_, _, _)
ParseFrom(st, ls, k) ==
  IF st.raised THEN st
  ELSE IF k > Len(ls) THEN [st EXCEPT !.answers = FinalFlush(st)]
  ELSE ParseFrom(LoopBody(st, ls[k]), ls, k + 1)

\* main.py:94-114: the parsed mapping, or raised = TRUE for a ValueError
ParseMain(text) == ParseFrom(ParserStart, SplitLines(Strip(text)), 1)

\* -------------------------------------------------------------------- state
VARIABLES
  lines,        \* parser: output.splitlines() of the response being parsed
  pos,          \* parser: the number of the line the loop is at
  answers,      \* parser: the mapping built (answers / answers_dict)
  current_idx,  \* parser: None or the index of the answer being buffered
  buffer,       \* parser: the pieces of the answer being buffered
  pc,           \* parser: "idle", "loop", "returned" or "raised"
  script,       \* the script the process runs
  api_key,      \* GEMINI_API_KEY in the environment: None or a text
  stage,        \* where the process is
  exception,    \* what ended the process when stage = "crashed" / "aborted"
  configured,   \* genai.configure() has been called
  events,       \* the calls made to the outside: generation service, files, page, console
  jobs_data,    \* main(): the rows of jobs_to_apply.json
  row,          \* main(): the number of the row the loop is at
  qa_pairs,     \* main(): the question/answer pairs of the row
  cover_letter, \* main(): the cover letter of the row
  all_jobs,     \* main(): the records built so far
  output_json,  \* output.json: None, or Some(the records written)
  page,         \* apply_to_job: the page loaded by page.goto
  empty_questions, \* apply_to_job: labels of the empty text fields
  fill_idx,        \* apply_to_job: the number of the element the fill loop is at
  final_answers    \* apply_to_job: the answers accepted or edited by the operator

parser_vars == <<lines, pos, answers, current_idx, buffer, pc>>

process_vars == <<script, api_key, stage, exception, configured, events>>

process_vars_but_stage == <<script, api_key, exception, configured, events>>

main_vars == <<jobs_data, row, qa_pairs, cover_letter, all_jobs, output_json>>

apply_vars == <<page, empty_questions, fill_idx, final_answers>>

vars == <<parser_vars, process_vars, main_vars, apply_vars>>

\* the process is not running: only the parser is exercised
ProcessIdle ==
  /\ script = "none"
  /\ api_key = None
  /\ stage = "idle"
  /\ exception = "none"
  /\ configured = FALSE
  /\ events = <<>>
  /\ jobs_data = <<>>
  /\ row = 1
  /\ qa_pairs = <<>>
  /\ cover_letter = <<>>
  /\ all_jobs = <<>>
  /\ output_json = None
  /\ page = [domain |-> "none", fields |-> <<>>, selects |-> <<>>]
  /\ empty_questions = <<>>
  /\ fill_idx = 1
  /\ final_answers = <<>>

\* main.py:94,100  output = response.text.strip(); output.splitlines()
ParserInit ==
  /\ \E n \in 0..MaxTextLen : \E text \in TextsOfLen(n) : lines = SplitLines(Strip(text))
  /\ pos = 1
  /\ answers = EmptyDict
  /\ current_idx = None
  /\ buffer = <<>>
  /\ pc = "loop"
  /\ ProcessIdle

ParserState ==
  [answers |-> answers, current_idx |-> current_idx, buffer |-> buffer, raised |-> FALSE]

\* main.py:100-111, a line on which int() succeeds or that is no marker
ParseLine ==
  /\ pc = "loop"
  /\ pos <= Len(lines)
  /\ LET st == LoopBody(ParserState, lines[pos])
     IN  /\ ~st.raised
         /\ answers' = st.answers
         /\ current_idx' = st.current_idx
         /\ buffer' = st.buffer
  /\ pos' = pos + 1
  /\ UNCHANGED <<lines, pc, process_vars, main_vars, apply_vars>>

\* main.py:107, int() raises ValueError: the call ends without a result
ParseRaise ==
  /\ pc = "loop"
  /\ pos <= Len(lines)
  /\ LET st == LoopBody(ParserState, lines[pos])
     IN  /\ st.raised
         /\ answers' = st.answers
  /\ pc' = "raised"
  /\ UNCHANGED <<lines, pos, current_idx, buffer, process_vars, main_vars, apply_vars>>

\* main.py:112-114
ParseReturn ==
  /\ pc = "loop"
  /\ pos > Len(lines)
  /\ answers' = FinalFlush(ParserState)
  /\ pc' = "returned"
  /\ UNCHANGED <<lines, pos, current_idx, buffer, process_vars, main_vars, apply_vars>>

ParserNext == ParseLine \/ ParseRaise \/ ParseReturn

ParserSpec == ParserInit /\ [][ParserNext]_vars

\* ------------------------------------------------------ the three scripts
Scripts == {"main.py", "apply_cli.py", "test.py"}

\* GEMINI_API_KEY: not set, set to the empty text, set to a key
ApiKeys == {None, Some(<<>>), Some(<<"k">>)}

\* a variant of KeyMissing: only an unset key counts, an empty one passes
KeyMissing_NoneOnly(key) == key = None

\* main.py:16, apply_cli.py:11, test.py:41  `not key`
KeyMissing(key) == IF key = None THEN TRUE ELSE key[1] = <<>>

\* what the generation service may answer to the answers prompt
Responses ==
  { <<"1", ".", "a", "\n", "2", ".", "b">>,
    <<"2", ".", "b", "\n", "1", ".", "a">>,
    <<"1", ".", " ", "a">>,
    <<"2", ".", "b">>,
    <<"0", ".", "b", "\n", "1", ".", "a">>,
    <<"1", ".", "a", "\n", "9", ".", "b">>,
    <<"a">>,
    <<>>,
    <<"1", "a", ".", " ", "b">> }

\* the k-th question of a row
Question(k) == <<"Q", DigitChar(k)>>

QuestionList(n) == [k \in 1..n |-> Question(k)]

Companies == {"Acme", "Bolt"}

Rows ==
  [Company : Companies, Questions : {QuestionList(n) : n \in 0..MaxQuestions}]

\* what jobs_to_apply.json may hold
JobLists == UNION {[1..n -> Rows] : n \in 0..MaxJobs}

\* the text the service returns for the cover letter of a company
Letter(company) == <<"Dear", company>>

Event(op, arg, ok) == [op |-> op, arg |-> arg, ok |-> ok]

Init ==
  /\ lines = <<>>
  /\ pos = 1
  /\ answers = EmptyDict
  /\ current_idx = None
  /\ buffer = <<>>
  /\ pc = "idle"
  /\ script \in Scripts
  /\ api_key \in ApiKeys
  /\ stage = "start"
  /\ exception = "none"
  /\ configured = FALSE
  /\ events = <<>>
  /\ jobs_data = <<>>
  /\ row = 1
  /\ qa_pairs = <<>>
  /\ cover_letter = <<>>
  /\ all_jobs = <<>>
  /\ output_json = None
  /\ page = [domain |-> "none", fields |-> <<>>, selects |-> <<>>]
  /\ empty_questions = <<>>
  /\ fill_idx = 1
  /\ final_answers = <<>>

\* main.py:15-17, apply_cli.py:10-12: no key, RuntimeError at import
StartupAbort ==
  /\ stage = "start"
  /\ script \in {"main.py", "apply_cli.py"}
  /\ KeyMissing(api_key)
  /\ stage' = "aborted"
  /\ exception' = "RuntimeError"
  /\ UNCHANGED <<script, api_key, configured, events, parser_vars, main_vars, apply_vars>>

\* main.py:19-20, apply_cli.py:13-14: genai.configure, GenerativeModel
StartupConfigure ==
  /\ stage = "start"
  /\ script \in {"main.py", "apply_cli.py"}
  /\ ~KeyMissing(api_key)
  /\ configured' = TRUE
  /\ stage' = "ready"
  /\ UNCHANGED <<script, api_key, exception, events, parser_vars, main_vars, apply_vars>>

\* test.py:40-43: no key, a message is printed and launch_gemini_ai returns
TestNoKey ==
  /\ stage = "start"
  /\ script = "test.py"
  /\ KeyMissing(api_key)
  /\ events' = Append(events, Event("print", "GEMINI_API_KEY not found", TRUE))
  /\ stage' = "exited"
  /\ UNCHANGED <<script, api_key, exception, configured, parser_vars, main_vars, apply_vars>>

\* test.py:45-51: configure, one call to the service inside try/except
TestCall ==
  /\ stage = "start"
  /\ script = "test.py"
  /\ ~KeyMissing(api_key)
  /\ configured' = TRUE
  /\ \E ok \in BOOLEAN :
       events' = events \o <<Event("generate_content", "test", ok),
                             Event("print", "test", TRUE)>>
  /\ stage' = "exited"
  /\ UNCHANGED <<script, api_key, exception, parser_vars, main_vars, apply_vars>>

\* ---------------------------------------------------------- main.py main()
\* main() is modelled as the body main.py runs after start-up.  (The file's
\* __main__ block as committed has the call to main() commented out and calls
\* generate_batch_ai_answers once; that call is the parser exercised by
\* ParserSpec.)
\* a variant of QaPairs: the answer of question k is looked up under k, not k - 1
QaPairs_OneBased(questions, answers_dict) ==
  [k \in 1..Len(questions) |->
     [question |-> questions[k], answer |-> DictGet(answers_dict, k, <<>>)]]

\* main.py:221-224  [{"question": q, "answer": answers_dict.get(i, "")} ...]
QaPairs(questions, answers_dict) ==
  [k \in 1..Len(questions) |->
     [question |-> questions[k], answer |-> DictGet(answers_dict, k - 1, <<>>)]]

\* main.py:238-246  the record of a row
Record(r, pairs, letter) ==
  [Company |-> r.Company, Questions |-> pairs, CoverLetter |-> letter]

\* main.py:206-210: the jobs file is opened and read
LoadJobs ==
  /\ stage = "ready"
  /\ script = "main.py"
  /\ \E jobs \in JobLists : jobs_data' = jobs
  /\ row' = 1
  /\ all_jobs' = <<>>
  /\ events' = Append(events, Event("read", "jobs_to_apply.json", TRUE))
  /\ stage' = "row"
  /\ UNCHANGED <<script, api_key, exception, configured, qa_pairs, cover_letter,
                 output_json, parser_vars, apply_vars>>

\* main.py:209: the jobs file is missing, the error is not handled
LoadJobsFails ==
  /\ stage = "ready"
  /\ script = "main.py"
  /\ events' = Append(events, Event("read", "jobs_to_apply.json", FALSE))
  /\ stage' = "crashed"
  /\ exception' = "FileNotFoundError"
  /\ UNCHANGED <<script, api_key, configured, parser_vars, main_vars, apply_vars>>

RowHasQuestions ==
  /\ stage = "row"
  /\ row <= Len(jobs_data)
  /\ jobs_data[row].Questions # <<>>

\* main.py:217-224: the answers are drafted, parsed and paired
DraftAnswers ==
  /\ RowHasQuestions
  /\ \E text \in Responses :
       LET st == ParseMain(text)
       IN  /\ ~st.raised
           /\ lines' = SplitLines(Strip(text))
           /\ answers' = st.answers
           /\ qa_pairs' = QaPairs(jobs_data[row].Questions, st.answers)
  /\ events' = Append(events, Event("generate_content", <<"answers", row>>, TRUE))
  /\ stage' = "cover"
  /\ UNCHANGED <<script, api_key, exception, configured, pos, current_idx, buffer, pc,
                 jobs_data, row, cover_letter, all_jobs, output_json, apply_vars>>

\* main.py:107 inside main.py:218: int() raises, main() does not handle it
DraftAnswersValueError ==
  /\ RowHasQuestions
  /\ \E text \in Responses :
       /\ ParseMain(text).raised
       /\ lines' = SplitLines(Strip(text))
  /\ events' = Append(events, Event("generate_content", <<"answers", row>>, TRUE))
  /\ stage' = "crashed"
  /\ exception' = "ValueError"
  /\ UNCHANGED <<script, api_key, configured, pos, answers, current_idx, buffer, pc,
                 main_vars, apply_vars>>

\* main.py:93 inside main.py:218: the call to the service raises
DraftAnswersCallFails ==
  /\ RowHasQuestions
  /\ events' = Append(events, Event("generate_content", <<"answers", row>>, FALSE))
  /\ stage' = "crashed"
  /\ exception' = "ServiceError"
  /\ UNCHANGED <<script, api_key, configured, parser_vars, main_vars, apply_vars>>

\* main.py:225-226: no questions, no call
SkipAnswers ==
  /\ stage = "row"
  /\ row <= Len(jobs_data)
  /\ jobs_data[row].Questions = <<>>
  /\ qa_pairs' = <<>>
  /\ stage' = "cover"
  /\ UNCHANGED <<process_vars_but_stage, parser_vars, jobs_data, row, cover_letter,
                 all_jobs, output_json, apply_vars>>

\* main.py:228-230: the cover letter is drafted
DraftCoverLetter ==
  /\ stage = "cover"
  /\ cover_letter' = Letter(jobs_data[row].Company)
  /\ events' = Append(events, Event("generate_content", <<"cover", row>>, TRUE))
  /\ stage' = "save"
  /\ UNCHANGED <<script, api_key, exception, configured, parser_vars, jobs_data, row,
                 qa_pairs, all_jobs, output_json, apply_vars>>

\* main.py:140 inside main.py:228: the call to the service raises
DraftCoverLetterCallFails ==
  /\ stage = "cover"
  /\ events' = Append(events, Event("generate_content", <<"cover", row>>, FALSE))
  /\ stage' = "crashed"
  /\ exception' = "ServiceError"
  /\ UNCHANGED <<script, api_key, configured, parser_vars, main_vars, apply_vars>>

\* main.py:232-236: the cover letter PDF, and the Q&A PDF when there are pairs
SavePdfs ==
  /\ stage = "save"
  /\ events' = events
       \o <<Event("write_pdf", <<"cover_letters", row>>, TRUE)>>
       \o (IF qa_pairs # <<>>
           THEN <<Event("write_pdf", <<"qa_pdfs", row>>, TRUE)>>
           ELSE <<>>)
  /\ stage' = "append"
  /\ UNCHANGED <<script, api_key, exception, configured, parser_vars, main_vars, apply_vars>>

\* a variant of AppendRecord: a row without question/answer pairs gets no record
AppendRecord_SkipsEmpty ==
  /\ stage = "append"
  /\ all_jobs' = IF qa_pairs = <<>> THEN all_jobs
                 ELSE Append(all_jobs, Record(jobs_data[row], qa_pairs, cover_letter))
  /\ row' = row + 1
  /\ stage' = "row"
  /\ UNCHANGED <<process_vars_but_stage, parser_vars, jobs_data, qa_pairs, cover_letter,
                 output_json, apply_vars>>

\* main.py:238-246: the record of the row is appended, the loop goes on
AppendRecord ==
  /\ stage = "append"
  /\ all_jobs' = Append(all_jobs, Record(jobs_data[row], qa_pairs, cover_letter))
  /\ row' = row + 1
  /\ stage' = "row"
  /\ UNCHANGED <<process_vars_but_stage, parser_vars, jobs_data, qa_pairs, cover_letter,
                 output_json, apply_vars>>

\* a variant of WriteOutput: the file is written whenever a row is finished,
\* not only after the last one
WriteOutput_Early ==
  /\ stage = "row"
  /\ output_json' = Some(all_jobs)
  /\ events' = Append(events, Event("write_json", "output.json", TRUE))
  /\ stage' = "exited"
  /\ UNCHANGED <<script, api_key, exception, configured, parser_vars, jobs_data, row,
                 qa_pairs, cover_letter, all_jobs, apply_vars>>

\* main.py:248-254: after the last row the records are written
WriteOutput ==
  /\ stage = "row"
  /\ row > Len(jobs_data)
  /\ output_json' = Some(all_jobs)
  /\ events' = Append(events, Event("write_json", "output.json", TRUE))
  /\ stage' = "exited"
  /\ UNCHANGED <<script, api_key, exception, configured, parser_vars, jobs_data, row,
                 qa_pairs, cover_letter, all_jobs, apply_vars>>

\* ------------------------------------------------- apply_cli.py apply_to_job
\* one pass of the loop of apply_cli.py:36-39 on one piece of output.split("\n")
ApplyLoopBody(st, line) ==
  IF Strip(line) # <<>> /\ IsDigit(line[1]) /\ Contains(line, ".")
  THEN LET parts == SplitOnce(line, ".")
       IN  IF IntOk(parts[1])
           THEN [st EXCEPT !.answers = DictSet(st.answers, IntValue(parts[1]) - 1,
                                                Strip(parts[2]))]
           ELSE [st EXCEPT !.raised = TRUE]
  ELSE st

RECURSIVE ApplyParseFrom(_, _, _)
ApplyParseFrom(st, ls, k) ==
  IF st.raised \/ k > Len(ls) THEN st
  ELSE ApplyParseFrom(ApplyLoopBody(st, ls[k]), ls, k + 1)

\* apply_cli.py:34-40: the parsed mapping, or raised = TRUE for a ValueError
ParseApplyCli(text) == ApplyParseFrom(ParserStart, Split(Strip(text), "\n"), 1)

\* urlparse(job_url).netloc of the job pages
Domains == {"boards.greenhouse.io", "jobs.lever.co", "example.com"}

\* apply_cli.py:133  "greenhouse.io" in domain
IsGreenhouse(domain) == domain = "boards.greenhouse.io"

\* apply_cli.py:135  "lever.co" in domain
IsLever(domain) == domain = "jobs.lever.co"

\* the value of a text field when the page is loaded: empty or filled
FieldValues == {<<>>, <<"x">>}

\* the number of options of a dropdown
OptionCounts == {0, 2}

\* the pages page.goto may load: text fields and dropdowns
Pages ==
  [domain : Domains,
   fields : UNION {[1..n -> FieldValues] : n \in 0..MaxFields},
   selects : UNION {[1..n -> OptionCounts] : n \in 0..MaxSelects}]

\* what the operator may type at the prompt
UserInputs == {<<>>, <<"e", " ">>}

\* the numbers of the text fields whose value is blank, in page order
RECURSIVE EmptyFields(_, _)
EmptyFields(fields, k) ==
  IF k > Len(fields) THEN <<>>
  ELSE (IF Strip(fields[k]) = <<>> THEN <<k>> ELSE <<>>) \o EmptyFields(fields, k + 1)

\* apply_cli.py:105: the page is loaded.  apply_to_job reads `page` as a global
\* that apply_cli.py never binds; the run modelled is one whose caller has bound it.
Goto ==
  /\ stage = "ready"
  /\ script = "apply_cli.py"
  /\ \E p \in Pages : page' = p
  /\ events' = Append(events, Event("goto", "job_url", TRUE))
  /\ stage' = "autofill"
  /\ UNCHANGED <<script, api_key, exception, configured, parser_vars, main_vars,
                 empty_questions, fill_idx, final_answers>>

\* apply_cli.py:44-75 general_autofill: four fills, each in its own try/except,
\* then the empty text fields are collected
GeneralAutofill ==
  /\ stage = "autofill"
  /\ \E name_ok, email_ok, phone_ok, resume_ok \in BOOLEAN :
       events' = events \o <<Event("fill", "name", name_ok),
                             Event("fill", "email", email_ok),
                             Event("fill", "phone", phone_ok),
                             Event("set_input_files", "resume", resume_ok)>>
  /\ empty_questions' = EmptyFields(page.fields, 1)
  /\ stage' = "answers"
  /\ UNCHANGED <<script, api_key, exception, configured, parser_vars, main_vars,
                 page, fill_idx, final_answers>>

\* apply_cli.py:111-115: the answers of the empty fields are drafted and parsed
ApplyDraftAnswers ==
  /\ stage = "answers"
  /\ empty_questions # <<>>
  /\ \E text \in Responses :
       LET st == ParseApplyCli(text)
       IN  /\ ~st.raised
           /\ lines' = Split(Strip(text), "\n")
           /\ answers' = st.answers
  /\ events' = Append(events, Event("generate_content", "answers", TRUE))
  /\ final_answers' = <<>>
  /\ stage' = "prompt"
  /\ UNCHANGED <<script, api_key, exception, configured, pos, current_idx, buffer, pc,
                 main_vars, page, empty_questions, fill_idx>>

\* apply_cli.py:39 inside apply_cli.py:115: int() raises
ApplyDraftAnswersValueError ==
  /\ stage = "answers"
  /\ empty_questions # <<>>
  /\ \E text \in Responses :
       /\ ParseApplyCli(text).raised
       /\ lines' = Split(Strip(text), "\n")
  /\ events' = Append(events, Event("generate_content", "answers", TRUE))
  /\ stage' = "crashed"
  /\ exception' = "ValueError"
  /\ UNCHANGED <<script, api_key, configured, pos, answers, current_idx, buffer, pc,
                 main_vars, apply_vars>>

\* apply_cli.py:33 inside apply_cli.py:115: the call to the service raises
ApplyDraftAnswersCallFails ==
  /\ stage = "answers"
  /\ empty_questions # <<>>
  /\ events' = Append(events, Event("generate_content", "answers", FALSE))
  /\ stage' = "crashed"
  /\ exception' = "ServiceError"
  /\ UNCHANGED <<script, api_key, configured, parser_vars, main_vars, apply_vars>>

\* apply_cli.py:119  answers.get(idx, "")
AiAnswer(answers_dict, idx) == DictGet(answers_dict, idx, <<>>)

\* apply_cli.py:124-126  user_input.strip() if user_input.strip() else ai_answer
FinalAnswer(user_input, ai_answer) ==
  IF Strip(user_input) # <<>> THEN Strip(user_input) ELSE ai_answer

\* apply_cli.py:118-126: one question is shown, the operator edits or accepts
PromptAnswer ==
  /\ stage = "prompt"
  /\ Len(final_answers) < Len(empty_questions)
  /\ \E user_input \in UserInputs :
       /\ final_answers' =
            Append(final_answers,
                   FinalAnswer(user_input, AiAnswer(answers, Len(final_answers))))
       /\ events' = Append(events, Event("input", user_input, TRUE))
  /\ UNCHANGED <<script, api_key, stage, exception, configured, parser_vars, main_vars,
                 page, empty_questions, fill_idx>>

\* apply_cli.py:128-129: one answer is filled; the fill is not in a try
FillAnswer ==
  /\ stage = "prompt"
  /\ Len(final_answers) = Len(empty_questions)
  /\ fill_idx <= Len(empty_questions)
  /\ page' = [page EXCEPT !.fields[empty_questions[fill_idx]] = final_answers[fill_idx]]
  /\ events' = Append(events, Event("fill", <<"answer", empty_questions[fill_idx]>>, TRUE))
  /\ fill_idx' = fill_idx + 1
  /\ UNCHANGED <<script, api_key, stage, exception, configured, parser_vars, main_vars,
                 empty_questions, final_answers>>

\* apply_cli.py:129: q_elem.fill raises, apply_to_job does not handle it
FillAnswerFails ==
  /\ stage = "prompt"
  /\ Len(final_answers) = Len(empty_questions)
  /\ fill_idx <= Len(empty_questions)
  /\ events' = Append(events, Event("fill", <<"answer", empty_questions[fill_idx]>>, FALSE))
  /\ stage' = "crashed"
  /\ exception' = "PageError"
  /\ UNCHANGED <<script, api_key, configured, parser_vars, main_vars, apply_vars>>

\* step 2 is over: there was no empty field, or every answer is filled
AtOverrides ==
  \/ stage = "answers" /\ empty_questions = <<>>
  \/ /\ stage = "prompt"
     /\ Len(final_answers) = Len(empty_questions)
     /\ fill_idx > Len(empty_questions)

\* the select_option calls of fill_greenhouse on the dropdowns from k on, with
\* every outcome each call may have
RECURSIVE SelectEvents(_, _)
SelectEvents(selects, k) ==
  IF k > Len(selects) THEN {<<>>}
  ELSE IF selects[k] = 0 THEN SelectEvents(selects, k + 1)
  ELSE {<<Event("select_option", k, ok)>> \o rest :
          ok \in BOOLEAN, rest \in SelectEvents(selects, k + 1)}

\* apply_cli.py:133-134, 79-87 fill_greenhouse: every dropdown that has options
\* gets select_option(index=1), each in its own try/except
FillGreenhouse ==
  /\ AtOverrides
  /\ IsGreenhouse(page.domain)
  /\ \E evs \in SelectEvents(page.selects, 1) : events' = events \o evs
  /\ stage' = "returned"
  /\ UNCHANGED <<script, api_key, exception, configured, parser_vars, main_vars, apply_vars>>

\* apply_cli.py:135-136, 90-100 fill_lever: two fills, each in its own try/except
FillLever ==
  /\ AtOverrides
  /\ ~IsGreenhouse(page.domain)
  /\ IsLever(page.domain)
  /\ \E linkedin_ok, github_ok \in BOOLEAN :
       events' = events \o <<Event("fill", "linkedin", linkedin_ok),
                             Event("fill", "github", github_ok)>>
  /\ stage' = "returned"
  /\ UNCHANGED <<script, api_key, exception, configured, parser_vars, main_vars, apply_vars>>

\* apply_cli.py:132-136: another domain, apply_to_job returns
NoOverride ==
  /\ AtOverrides
  /\ ~IsGreenhouse(page.domain)
  /\ ~IsLever(page.domain)
  /\ stage' = "returned"
  /\ UNCHANGED <<process_vars_but_stage, parser_vars, main_vars, apply_vars>>

Next ==
  \/ StartupAbort \/ StartupConfigure \/ TestNoKey \/ TestCall
  \/ LoadJobs \/ LoadJobsFails
  \/ DraftAnswers \/ DraftAnswersValueError \/ DraftAnswersCallFails \/ SkipAnswers
  \/ DraftCoverLetter \/ DraftCoverLetterCallFails
  \/ SavePdfs \/ AppendRecord \/ WriteOutput
  \/ Goto \/ GeneralAutofill
  \/ ApplyDraftAnswers \/ ApplyDraftAnswersValueError \/ ApplyDraftAnswersCallFails
  \/ PromptAnswer \/ FillAnswer \/ FillAnswerFails
  \/ FillGreenhouse \/ FillLever \/ NoOverride

Spec == Init /\ [][Next]_vars

\* ---------------------------------------------------------------------------
\* What the claims about the parser say, stated on the lines themselves and
\* without the parser's own operators.
Min(S) == CHOOSE x \in S : \A y \in S : x <= y

Max(S) == CHOOSE x \in S : \A y \in S : x >= y

\* s without its leading and trailing whitespace
Trim(s) ==
  LET ks == {k \in 1..Len(s) : s[k] \notin Whitespace}
  IN  IF ks = {} THEN <<>> ELSE SubSeq(s, Min(ks), Max(ks))

\* the decimal numeral of k >= 1
RECURSIVE Numeral(_)
Numeral(k) ==
  IF k < 10 THEN <<DigitChar(k)>> ELSE Numeral(k \div 10) \o <<DigitChar(k % 10)>>

\* line k has the form "k." followed by a non-blank answer
WellFormedLine(line, k) ==
  LET num == Numeral(k)
  IN  /\ Len(line) > Len(num) + 1
      /\ SubSeq(line, 1, Len(num)) = num
      /\ line[Len(num) + 1] = "."
      /\ Trim(SubSeq(line, Len(num) + 2, Len(line))) # <<>>

WellFormed(ls) ==
  /\ Len(ls) >= 1
  /\ \A k \in 1..Len(ls) : WellFormedLine(ls[k], k)

\* a_k of a well-formed line k
AnswerOf(line, k) == SubSeq(line, Len(Numeral(k)) + 2, Len(line))

\* a trimmed line whose first character is a digit and that holds a "."
LineIsMarker(raw) ==
  LET l == Trim(raw)
  IN  l # <<>> /\ l[1] \in Digits /\ \E k \in 1..Len(l) : l[k] = "."

FirstDot(l) == Min({k \in 1..Len(l) : l[k] = "."})

\* the text before the first "." of a marker line
TextBeforeDot(raw) == LET l == Trim(raw) IN SubSeq(l, 1, FirstDot(l) - 1)

\* the trimmed text after the first "." of a marker line
TextAfterDot(raw) == LET l == Trim(raw) IN Trim(SubSeq(l, FirstDot(l) + 1, Len(l)))

\* the index a marker line names: the integer before its first ".", minus 1
IndexOf(raw) == IntValue(TextBeforeDot(raw)) - 1

\* the marker lines among the first n lines
Markers(n) == {p \in 1..n : p <= Len(lines) /\ LineIsMarker(lines[p])}

\* acc, then the non-blank lines from q up to the next marker, each trimmed,
\* with one space between two pieces
RECURSIVE Gather(_, _)
Gather(q, acc) ==
  IF q > Len(lines) \/ LineIsMarker(lines[q]) THEN acc
  ELSE LET l == Trim(lines[q])
       IN  Gather(q + 1, IF l = <<>> THEN acc
                         ELSE IF acc = <<>> THEN l
                         ELSE acc \o <<" ">> \o l)

\* the answer of the marker at line p
Expected(p) == Gather(p + 1, TextAfterDot(lines[p]))

\* the markers whose answer has been stored: all of them after the return, and
\* during the loop those followed by a marker the loop has already passed
Stored ==
  IF pc = "returned" THEN Markers(Len(lines))
  ELSE {m \in Markers(pos - 1) : \E m2 \in Markers(pos - 1) : m2 > m}

\* C1: for a response of n >= 1 lines "k.a_k", k = 1..n in order, each a_k
\* non-blank, the parser does not raise and returns exactly
\* {k-1 : trimmed a_k}, dots inside a_k kept.
C1_WellFormedParsesExactly ==
  WellFormed(lines) =>
    /\ pc # "raised"
    /\ pc = "returned" =>
         answers = [i \in 0..(Len(lines) - 1) |-> Trim(AnswerOf(lines[i + 1], i + 1))]

\* two well-formed lines parsed, one answer holding a dot
C1_Witness ==
  /\ pc = "returned"
  /\ WellFormed(lines)
  /\ Len(lines) = 2
  /\ \E i \in DOMAIN answers : \E k \in 1..Len(answers[i]) : answers[i][k] = "."

\* C2: for every input text the parser returns a mapping without raising.
C2_ParserNeverRaises == pc # "raised"

\* C3: the answer stored for a marker is the trimmed text after its first
\* ".", then every later non-blank non-marker line up to the next marker,
\* joined by single spaces in input order; blank lines are skipped and do not
\* end the answer.  (A later marker of the same number overwrites the entry.)
C3_StoredAnswerIsJoinedLines ==
  pc \in {"loop", "returned"} =>
    \A m \in Stored :
      (\A m2 \in Stored : m2 > m => IndexOf(lines[m2]) # IndexOf(lines[m])) =>
        /\ IndexOf(lines[m]) \in DOMAIN answers
        /\ answers[IndexOf(lines[m])] = Expected(m)

\* a marker with text, then a blank line, then a continuation line, returned
\* as one answer
C3_Witness ==
  /\ pc = "returned"
  /\ \E m \in Markers(Len(lines)) :
       /\ m + 2 <= Len(lines)
       /\ TextAfterDot(lines[m]) # <<>>
       /\ Trim(lines[m + 1]) = <<>>
       /\ Trim(lines[m + 2]) # <<>>
       /\ ~LineIsMarker(lines[m + 2])
       /\ answers[IndexOf(lines[m])] =
            TextAfterDot(lines[m]) \o <<" ">> \o Trim(lines[m + 2])

\* C5: when the text holds a marker line, the returned mapping holds the index
\* of the last marker with the text buffered since it; when it holds none, the
\* returned mapping is empty.
C5_LastAnswerFlushed ==
  pc = "returned" =>
    IF Markers(Len(lines)) = {}
    THEN answers = EmptyDict
    ELSE LET m == Max(Markers(Len(lines)))
         IN  /\ IndexOf(lines[m]) \in DOMAIN answers
             /\ answers[IndexOf(lines[m])] = Expected(m)

\* two markers, the last one followed by a continuation line and no marker
C5_Witness ==
  /\ pc = "returned"
  /\ Cardinality(Markers(Len(lines))) = 2
  /\ Max(Markers(Len(lines))) < Len(lines)
  /\ answers[IndexOf(lines[Max(Markers(Len(lines)))])] # <<>>

\* C10: every trimmed line whose first character is a digit and that holds a
\* "." is a marker, wherever it stands: it starts the entry at (integer before
\* the first ".") - 1 with the text after the first ".".  The returned keys are
\* the indices the markers name, not their positions, and of the markers of
\* one number the last one's answer is kept.
C10_MarkerAnywhereStartsEntry ==
  /\ pc = "loop" =>
       IF Markers(pos - 1) = {}
       THEN current_idx = None /\ answers = EmptyDict
       ELSE LET m == Max(Markers(pos - 1))
            IN  /\ current_idx = Some(IndexOf(lines[m]))
                /\ buffer[1] = TextAfterDot(lines[m])
  /\ pc = "returned" =>
       /\ DOMAIN answers = {IndexOf(lines[m]) : m \in Markers(Len(lines))}
       /\ \A m \in Markers(Len(lines)) :
            (\A m2 \in Markers(Len(lines)) :
               m2 > m => IndexOf(lines[m2]) # IndexOf(lines[m])) =>
              answers[IndexOf(lines[m])] = Expected(m)

\* "1.a" then "2.1": the decimal inside answer 1 ends it and becomes entry 1
C10_Witness ==
  /\ pc = "returned"
  /\ Len(lines) = 2
  /\ lines[2] = <<"2", ".", "1">>
  /\ LineIsMarker(lines[1])
  /\ IndexOf(lines[1]) = 0
  /\ answers = [i \in {0, 1} |-> IF i = 0 THEN TextAfterDot(lines[1]) ELSE <<"1">>]

\* two markers of one number: only the last answer is kept
C10_RepeatedNumberWitness ==
  /\ pc = "returned"
  /\ Len(lines) = 2
  /\ Markers(2) = {1, 2}
  /\ IndexOf(lines[1]) = IndexOf(lines[2])
  /\ TextAfterDot(lines[1]) # TextAfterDot(lines[2])
  /\ answers = [i \in {IndexOf(lines[2])} |-> TextAfterDot(lines[2])]

\* ---------------------------------------------------------------------------
\* What the claims about the scripts say.
EventsOf(op) == {k \in 1..Len(events) : events[k].op = op}

Last(seq) == seq[Len(seq)]

\* the texts typed at the prompts, in order
RECURSIVE Typed(_)
Typed(k) ==
  IF k > Len(events) THEN <<>>
  ELSE (IF events[k].op = "input" THEN <<events[k].arg>> ELSE <<>>) \o Typed(k + 1)

\* C4: the pairs built for a row of n questions are n pairs, pair i carries
\* question i, and its answer is the parsed answer under index i, or the empty
\* text when the parsed mapping has no key i; keys outside 0..n-1 are not used.
\* In apply_to_job the answer suggested for field i is looked up the same way.
C4_PairsFollowQuestions ==
  /\ (script = "main.py" /\ stage \in {"cover", "save", "append"}) =>
       LET qs == jobs_data[row].Questions
       IN  /\ Len(qa_pairs) = Len(qs)
           /\ \A i \in 0..(Len(qs) - 1) :
                /\ qa_pairs[i + 1].question = qs[i + 1]
                /\ qa_pairs[i + 1].answer =
                     IF i \in DOMAIN answers THEN answers[i] ELSE <<>>
  /\ \A j \in 1..Len(all_jobs) :
       /\ Len(all_jobs[j].Questions) = Len(jobs_data[j].Questions)
       /\ \A k \in 1..Len(all_jobs[j].Questions) :
            all_jobs[j].Questions[k].question = jobs_data[j].Questions[k]
  /\ (script = "apply_cli.py" /\ stage = "prompt") =>
       /\ Len(final_answers) <= Len(empty_questions)
       /\ \A i \in 0..(Len(final_answers) - 1) :
            final_answers[i + 1] =
              IF Trim(Typed(1)[i + 1]) # <<>> THEN Trim(Typed(1)[i + 1])
              ELSE IF i \in DOMAIN answers THEN answers[i] ELSE <<>>

\* two questions, a parsed mapping with key -1 and key 0 and without key 1
C4_Witness ==
  /\ script = "main.py"
  /\ stage = "cover"
  /\ Len(jobs_data[row].Questions) = 2
  /\ DOMAIN answers = {-1, 0}
  /\ qa_pairs[1].answer = answers[0]
  /\ qa_pairs[1].answer # <<>>
  /\ qa_pairs[2].answer = <<>>

\* C6: a failed fill never ends apply_to_job: the failure is swallowed and the
\* run goes on to the later fills and the overrides.
C6_FillFailureNeverAborts ==
  ~(/\ stage = "crashed"
    /\ events # <<>>
    /\ Last(events).op \in {"fill", "set_input_files", "select_option"}
    /\ ~Last(events).ok)

\* C7: a row without questions gets no answers call and no Q&A PDF, but its
\* cover letter is drafted and one record with Questions = [] is appended; the
\* records are those of the rows, one each, in input order, and the file
\* written holds one record per row.
C7_OneRecordPerRow ==
  script = "main.py" =>
    /\ Len(all_jobs) <= Len(jobs_data)
    /\ stage = "row" => Len(all_jobs) = row - 1
    /\ \A j \in 1..Len(all_jobs) :
         /\ all_jobs[j].Company = jobs_data[j].Company
         /\ jobs_data[j].Questions = <<>> =>
              /\ all_jobs[j].Questions = <<>>
              /\ all_jobs[j].CoverLetter = Letter(jobs_data[j].Company)
              /\ \A k \in 1..Len(events) :
                   /\ events[k] # Event("generate_content", <<"answers", j>>, TRUE)
                   /\ events[k] # Event("generate_content", <<"answers", j>>, FALSE)
                   /\ events[k] # Event("write_pdf", <<"qa_pdfs", j>>, TRUE)
              /\ \E k \in 1..Len(events) :
                   events[k] = Event("generate_content", <<"cover", j>>, TRUE)
              /\ \E k \in 1..Len(events) :
                   events[k] = Event("write_pdf", <<"cover_letters", j>>, TRUE)
    /\ output_json # None =>
         /\ Len(output_json[1]) = Len(jobs_data)
         /\ \A j \in 1..Len(jobs_data) :
              output_json[1][j].Company = jobs_data[j].Company

\* two rows written, the first without questions, the second with
C7_Witness ==
  /\ script = "main.py"
  /\ stage = "exited"
  /\ output_json # None
  /\ Len(jobs_data) = 2
  /\ jobs_data[1].Questions = <<>>
  /\ jobs_data[2].Questions # <<>>
  /\ jobs_data[1].Company # jobs_data[2].Company
  /\ output_json[1][1].Questions = <<>>
  /\ output_json[1][2].Questions # <<>>

KeyAbsentOrEmpty == api_key \in {None, Some(<<>>)}

NoServiceUse ==
  /\ ~configured
  /\ EventsOf("generate_content") = {}
  /\ EventsOf("read") = {}

C9_EndsInReviewPause ==
  /\ stage = "returned" => (events # <<>> /\ Last(events).op = "input")
  /\ EventsOf("submit") = {}

\* the events of main() that belong to the processing of a row
RowEvents == {k \in 1..Len(events) : events[k].op \in {"generate_content", "write_pdf"}}

\* row j made the call or wrote the PDF named kind, with success
RowDid(op, kind, j) ==
  \E k \in 1..Len(events) :
    /\ events[k].op = op
    /\ events[k].arg = <<kind, j>>
    /\ events[k].ok

\* C11: main() writes output.json at most once, as the whole batch, and only
\* after every row has been processed (answers, cover letter, PDFs), one row at
\* a time in input order; when the processing of a row raises, the file is not
\* written although the PDFs of the rows before it are.
C11_OutputWrittenOnceAtEnd ==
  script = "main.py" =>
    /\ Cardinality(EventsOf("write_json")) <= 1
    /\ (output_json # None) <=> (EventsOf("write_json") # {})
    /\ \A k1, k2 \in RowEvents : k1 < k2 => events[k1].arg[2] <= events[k2].arg[2]
    /\ output_json # None =>
         /\ stage = "exited"
         /\ Last(events).op = "write_json"
         /\ output_json[1] = all_jobs
         /\ Len(all_jobs) = Len(jobs_data)
         /\ \A j \in 1..Len(jobs_data) :
              /\ RowDid("generate_content", "cover", j)
              /\ RowDid("write_pdf", "cover_letters", j)
              /\ jobs_data[j].Questions # <<>> =>
                   /\ RowDid("generate_content", "answers", j)
                   /\ RowDid("write_pdf", "qa_pdfs", j)
    /\ stage = "crashed" =>
         /\ output_json = None
         /\ \A j \in 1..(row - 1) : RowDid("write_pdf", "cover_letters", j)

\* the call for the second row raised: the PDFs of the first row are written,
\* output.json is not
C11_Witness ==
  /\ script = "main.py"
  /\ stage = "crashed"
  /\ exception \in {"ServiceError", "ValueError"}
  /\ row = 2
  /\ RowDid("write_pdf", "cover_letters", 1)
  /\ RowDid("write_pdf", "qa_pdfs", 1)
  /\ Len(all_jobs) = 1
  /\ output_json = None

====
